---- MODULE Spec2Model ----
(***************************************************************************)
(* Model of provision/internal/operator/terraform/operator.go: the         *)
(* Terraform operator's Create, Status and Delete, step by step, over a    *)
(* file system of cluster directories, the process-wide os.Stderr and the  *)
(* external engine (tfInit, tfApply, tfDestroy).                           *)
(***************************************************************************)
EXTENDS Integers, Sequences, FiniteSets, TLC

\* ------------------------------------------------------------------ bounds
\* A state artifact is modelled by the number of resources it reports.
MaxResources == 2

\* ------------------------------------------------------------- value sets
Procs == {"g1", "g2"}                 \* goroutines of the caller
Projects == {"p1"}
Clusters == {"c1"}
Providers == {"gardener", "gcp"}      \* types.ProviderType
Gardener == "gardener"                \* types.Gardener
NoString == "<not a string>"          \* a cfg key that is missing or holds no string
Nil == -1                             \* a nil *statefile.File; no state file on disk
Artifacts == 0..MaxResources
Dirs == Projects \X Clusters \X Providers
AllFiles == {"plugins", "config", "output"}

\* cfg map[string]interface{}: the two keys the operator reads
Cfgs == [project : Projects \cup {NoString}, cluster_name : Clusters \cup {NoString}]

\* cfg["project"].(string) and cfg["cluster_name"].(string) do not panic
IsString(v) == v # NoString
CfgOK(cfg) == IsString(cfg.project) /\ IsString(cfg.cluster_name)

\* errors: the static message of errors.Wrap (empty when unwrapped) and the
\* sub-step whose failure caused it
NilErr == [msg |-> "", cause |-> ""]
Raw(step) == [msg |-> "", cause |-> step]
Wrap(step, m) == [msg |-> m, cause |-> step]

\* sf.State.HasResources()
HasResources(sf) == sf > 0

\* ------------------------------------------------- collaborators' effects
\* one cluster directory on disk
Absent == [dir |-> FALSE, state |-> Nil, files |-> {}]
EmptyDir == [dir |-> TRUE, state |-> Nil, files |-> {}]

\* clusterDir: resolve the directory, creating it when absent
clusterDirFS(f, d) == [f EXCEPT ![d].dir = TRUE]

\* cleanup: recursively remove the directory
cleanupFS(f, d) == [f EXCEPT ![d] = Absent]

\* tfInit: install provider plugins and set the backend
tfInitFS(f, d) == [f EXCEPT ![d].files = @ \cup {"plugins"}]

\* initClusterFiles: write the configuration into the engine's input files
initClusterFilesFS(f, d) == [f EXCEPT ![d].files = @ \cup {"config"}]

\* tfApply succeeded: state file with n resources and the output files
tfApplyFS(f, d, n) == [f EXCEPT ![d].state = n, ![d].files = @ \cup {"output"}]

\* stateToFile: overwrite the state file with the artifact
stateToFileFS(f, d, sf) == [f EXCEPT ![d].state = sf]

\* tfDestroy ended leaving n resources in the state file (0 on success)
tfDestroyFS(f, d, n) == [f EXCEPT ![d].state = n]

\* stateFromFile can succeed: the directory holds a state file
CanLoadState(f, d) == f[d].dir /\ f[d].state # Nil

\* clusterInfoFromFile can succeed: the engine's outputs are in the directory
CanReadInfo(f, d) == f[d].dir /\ f[d].state # Nil /\ "output" \in f[d].files

\* ------------------------------------------------------------------ state
VARIABLES
    ops,        \* t.ops: [Verbose, Persistent], set by New
    logOutput,  \* the log package's output, set by New
    osStderr,   \* os.Stderr: "stderr" (the original), "devnull" or "nil"
    gardener,   \* initGardenerProvider has run in this process
    fs,         \* [Dirs -> directory]: the data directory on disk
    pc,         \* [Procs -> position in Create/Status/Delete]
    call,       \* [Procs -> [op, arg, sf, p, cfg, timeouts]]: the call's arguments
                \* (arg: sf as passed; sf: the variable, which Status reassigns)
    stderr,     \* [Procs -> the local variable stderr]
    defers,     \* [Procs -> stack of deferred calls, last registered first]
    ret,        \* [Procs -> [val, err, panic]]: what the call returns
    trace,      \* [Procs -> the sub-steps this call has invoked] (history)
    before      \* [Procs -> os.Stderr and fs when the call began] (history)

vars == <<ops, logOutput, osStderr, gardener, fs, pc, call, stderr, defers, ret,
          trace, before>>

NoCall == [op |-> "none", arg |-> Nil, sf |-> Nil, p |-> Gardener,
           cfg |-> [project |-> NoString, cluster_name |-> NoString],
           timeouts |-> FALSE]
NoBefore == [osStderr |-> "nil", fs |-> [d \in Dirs |-> Absent]]
NoRet == [val |-> "nil", err |-> NilErr, panic |-> FALSE]

\* what a previous run of the program may have left in a cluster directory
InitDirStates == {Absent, EmptyDir}
                 \cup {[dir |-> TRUE, state |-> n, files |-> AllFiles] : n \in Artifacts}

\* New (operator.go 20-30)
Init ==
    /\ ops \in [Verbose : BOOLEAN, Persistent : BOOLEAN]
    /\ logOutput = IF ops.Verbose THEN "default" ELSE "discard"
    /\ osStderr = "stderr"
    /\ gardener = FALSE
    /\ fs \in [Dirs -> InitDirStates]
    /\ pc = [q \in Procs |-> "idle"]
    /\ call = [q \in Procs |-> NoCall]
    /\ stderr = [q \in Procs |-> "nil"]
    /\ defers = [q \in Procs |-> <<>>]
    /\ ret = [q \in Procs |-> NoRet]
    /\ trace = [q \in Procs |-> <<>>]
    /\ before = [q \in Procs |-> NoBefore]

\* ---------------------------------------------------------------- helpers
\* the cluster directory of q's call (cfg holds both strings)
Dir(q) == <<call[q].cfg.project, call[q].cfg.cluster_name, call[q].p>>

Goto(q, l) == pc' = [pc EXCEPT ![q] = l]

\* return v, e: leave the body; the deferred calls run next
Return(q, v, e) ==
    /\ ret' = [ret EXCEPT ![q] = [val |-> v, err |-> e, panic |-> FALSE]]
    /\ Goto(q, "return")

\* a failed type assertion panics: the deferred calls run, the panic propagates
Panic(q) ==
    /\ ret' = [ret EXCEPT ![q] = [val |-> "nil", err |-> NilErr, panic |-> TRUE]]
    /\ Goto(q, "return")

\* history: q's call invoked sub-step s, which succeeded or not
Log(q, s, ok, st) ==
    trace' = [trace EXCEPT ![q] =
                 Append(@, [step |-> s, ok |-> ok, state |-> st, out |-> osStderr])]

Defer(q, fn, d) == defers' = [defers EXCEPT ![q] = <<[fn |-> fn, dir |-> d]>> \o @]

\* a call begins: applyTimeouts(cfg, t.ops.Timeouts)
Begin(q, op, sf, p, cfg, l) ==
    /\ pc[q] = "idle"
    /\ call' = [call EXCEPT ![q] =
                   [op |-> op, arg |-> sf, sf |-> sf, p |-> p, cfg |-> cfg,
                    timeouts |-> TRUE]]
    /\ ret' = [ret EXCEPT ![q] = NoRet]
    /\ trace' = [trace EXCEPT ![q] = <<>>]
    /\ before' = [before EXCEPT ![q] = [osStderr |-> osStderr, fs |-> fs]]
    /\ defers' = [defers EXCEPT ![q] = <<>>]
    /\ Goto(q, l)
    /\ UNCHANGED <<ops, logOutput, osStderr, gardener, fs, stderr>>

\* ----------------------------------------------------------------- Create
CreateBegin(q, p, cfg) == Begin(q, "Create", Nil, p, cfg, "C_silence")

\* if !t.ops.Verbose { stderr := os.Stderr; os.Stderr, err = os.Open(os.DevNull) ... }
CreateSilence(q) ==
    /\ pc[q] = "C_silence"
    /\ IF ~ops.Verbose
       THEN /\ stderr' = [stderr EXCEPT ![q] = osStderr]
            /\ \E ok \in BOOLEAN :
                 /\ Log(q, "open", ok, Nil)
                 /\ IF ok
                    THEN /\ osStderr' = "devnull"
                         /\ Defer(q, "restore", <<>>)
                         /\ Goto(q, "C_defer")
                         /\ UNCHANGED ret
                    ELSE /\ osStderr' = "nil"
                         /\ Return(q, "nil", Raw("open"))
                         /\ UNCHANGED defers
       ELSE /\ Goto(q, "C_defer")
            /\ UNCHANGED <<osStderr, stderr, defers, ret, trace>>
    /\ UNCHANGED <<ops, logOutput, gardener, fs, call, before>>

\* mutant of CreateDefer: the cleanup is deferred whatever t.ops.Persistent is
CreateDefer_Always(q) ==
    /\ pc[q] = "C_defer"
    /\ IF CfgOK(call[q].cfg)
       THEN Defer(q, "cleanup", Dir(q)) /\ Goto(q, "C_clusterDir") /\ UNCHANGED ret
       ELSE Panic(q) /\ UNCHANGED defers
    /\ UNCHANGED <<ops, logOutput, osStderr, gardener, fs, call, stderr, trace, before>>

\* mutant of CreateDefer: the cleanup is never deferred
CreateDefer_Never(q) ==
    /\ pc[q] = "C_defer"
    /\ Goto(q, "C_clusterDir")
    /\ UNCHANGED <<ops, logOutput, osStderr, gardener, fs, call, stderr, defers, ret,
                   trace, before>>

\* if !t.ops.Persistent { defer cleanup(...) }: the arguments are evaluated here
CreateDefer(q) ==
    /\ pc[q] = "C_defer"
    /\ IF ~ops.Persistent
       THEN IF CfgOK(call[q].cfg)
            THEN Defer(q, "cleanup", Dir(q)) /\ Goto(q, "C_clusterDir") /\ UNCHANGED ret
            ELSE Panic(q) /\ UNCHANGED defers
       ELSE Goto(q, "C_clusterDir") /\ UNCHANGED <<defers, ret>>
    /\ UNCHANGED <<ops, logOutput, osStderr, gardener, fs, call, stderr, trace, before>>

\* mutant of CreateClusterDir: the path is computed but the directory is not created
CreateClusterDir_NoCreate(q) ==
    /\ pc[q] = "C_clusterDir"
    /\ IF ~CfgOK(call[q].cfg)
       THEN Panic(q) /\ UNCHANGED trace
       ELSE \E ok \in BOOLEAN :
              /\ Log(q, "clusterDir", ok, fs[Dir(q)].state)
              /\ IF ok
                 THEN Goto(q, "C_gardener") /\ UNCHANGED ret
                 ELSE Return(q, "nil", Raw("clusterDir"))
    /\ UNCHANGED <<ops, logOutput, osStderr, gardener, fs, call, stderr, defers, before>>

\* clusterDir, err := clusterDir(...); if err != nil { return nil, err }
CreateClusterDir(q) ==
    /\ pc[q] = "C_clusterDir"
    /\ IF ~CfgOK(call[q].cfg)
       THEN Panic(q) /\ UNCHANGED <<fs, trace>>
       ELSE \E ok \in BOOLEAN :
              /\ Log(q, "clusterDir", ok, fs[Dir(q)].state)
              /\ IF ok
                 THEN /\ fs' = clusterDirFS(fs, Dir(q))
                      /\ Goto(q, "C_gardener")
                      /\ UNCHANGED ret
                 ELSE /\ Return(q, "nil", Raw("clusterDir"))
                      /\ UNCHANGED fs
    /\ UNCHANGED <<ops, logOutput, osStderr, gardener, call, stderr, defers, before>>

\* if p == types.Gardener { if err := initGardenerProvider(); err != nil { ... } }
CreateGardener(q) ==
    /\ pc[q] = "C_gardener"
    /\ IF call[q].p = Gardener
       THEN \E ok \in BOOLEAN :
              /\ Log(q, "initGardenerProvider", ok, fs[Dir(q)].state)
              /\ IF ok
                 THEN gardener' = TRUE /\ Goto(q, "C_tfInit") /\ UNCHANGED ret
                 ELSE /\ Return(q, "nil", Wrap("initGardenerProvider",
                                     "could not initialize the gardener provider"))
                      /\ UNCHANGED gardener
       ELSE Goto(q, "C_tfInit") /\ UNCHANGED <<gardener, ret, trace>>
    /\ UNCHANGED <<ops, logOutput, osStderr, fs, call, stderr, defers, before>>

\* mutant of CreateTfInit: a failed tfInit is tried a second time
CreateTfInit_Retry(q) ==
    /\ pc[q] = "C_tfInit"
    /\ \E ok \in BOOLEAN :
         /\ ok => fs[Dir(q)].dir
         /\ Log(q, "tfInit", ok, fs[Dir(q)].state)
         /\ IF ok
            THEN fs' = tfInitFS(fs, Dir(q)) /\ Goto(q, "C_files") /\ UNCHANGED ret
            ELSE /\ IF \E i \in DOMAIN trace[q] : trace[q][i].step = "tfInit"
                    THEN Return(q, "nil", Raw("tfInit"))
                    ELSE UNCHANGED <<pc, ret>>
                 /\ UNCHANGED fs
    /\ UNCHANGED <<ops, logOutput, osStderr, gardener, call, stderr, defers, before>>

\* if err := tfInit(...); err != nil { return nil, err }
CreateTfInit(q) ==
    /\ pc[q] = "C_tfInit"
    /\ \E ok \in BOOLEAN :
         /\ ok => fs[Dir(q)].dir
         /\ Log(q, "tfInit", ok, fs[Dir(q)].state)
         /\ IF ok
            THEN fs' = tfInitFS(fs, Dir(q)) /\ Goto(q, "C_files") /\ UNCHANGED ret
            ELSE Return(q, "nil", Raw("tfInit")) /\ UNCHANGED fs
    /\ UNCHANGED <<ops, logOutput, osStderr, gardener, call, stderr, defers, before>>

\* mutant of CreateInitClusterFiles: the error is returned without errors.Wrap
CreateInitClusterFiles_Unwrapped(q) ==
    /\ pc[q] = "C_files"
    /\ \E ok \in BOOLEAN :
         /\ ok => fs[Dir(q)].dir
         /\ Log(q, "initClusterFiles", ok, fs[Dir(q)].state)
         /\ IF ok
            THEN fs' = initClusterFilesFS(fs, Dir(q)) /\ Goto(q, "C_apply") /\ UNCHANGED ret
            ELSE Return(q, "nil", Raw("initClusterFiles")) /\ UNCHANGED fs
    /\ UNCHANGED <<ops, logOutput, osStderr, gardener, call, stderr, defers, before>>

\* if err := initClusterFiles(...); err != nil { return nil, errors.Wrap(...) }
CreateInitClusterFiles(q) ==
    /\ pc[q] = "C_files"
    /\ \E ok \in BOOLEAN :
         /\ ok => fs[Dir(q)].dir
         /\ Log(q, "initClusterFiles", ok, fs[Dir(q)].state)
         /\ IF ok
            THEN fs' = initClusterFilesFS(fs, Dir(q)) /\ Goto(q, "C_apply") /\ UNCHANGED ret
            ELSE /\ Return(q, "nil", Wrap("initClusterFiles",
                                          "Could not initialize cluster data"))
                 /\ UNCHANGED fs
    /\ UNCHANGED <<ops, logOutput, osStderr, gardener, call, stderr, defers, before>>

\* mutant of CreateTfApply: the error of tfApply is dropped
CreateTfApply_IgnoreError(q) ==
    /\ pc[q] = "C_apply"
    /\ \E ok \in BOOLEAN :
         /\ ok => fs[Dir(q)].dir
         /\ Log(q, "tfApply", ok, fs[Dir(q)].state)
         /\ IF ok
            THEN \E n \in Artifacts : fs' = tfApplyFS(fs, Dir(q), n)
            ELSE \/ UNCHANGED fs
                 \/ /\ fs[Dir(q)].dir
                    /\ \E n \in Artifacts : fs' = stateToFileFS(fs, Dir(q), n)
         /\ Goto(q, "C_info")
         /\ UNCHANGED ret
    /\ UNCHANGED <<ops, logOutput, osStderr, gardener, call, stderr, defers, before>>

\* if err := tfApply(...); err != nil { return nil, err }
\* A failed apply may have written part of the state.
CreateTfApply(q) ==
    /\ pc[q] = "C_apply"
    /\ \E ok \in BOOLEAN :
         /\ ok => fs[Dir(q)].dir
         /\ Log(q, "tfApply", ok, fs[Dir(q)].state)
         /\ IF ok
            THEN /\ \E n \in Artifacts : fs' = tfApplyFS(fs, Dir(q), n)
                 /\ Goto(q, "C_info")
                 /\ UNCHANGED ret
            ELSE /\ \/ UNCHANGED fs
                    \/ /\ fs[Dir(q)].dir
                       /\ \E n \in Artifacts : fs' = stateToFileFS(fs, Dir(q), n)
                 /\ Return(q, "nil", Raw("tfApply"))
    /\ UNCHANGED <<ops, logOutput, osStderr, gardener, call, stderr, defers, before>>

\* return clusterInfoFromFile(...)
CreateClusterInfo(q) ==
    /\ pc[q] = "C_info"
    /\ \E ok \in BOOLEAN :
         /\ ok => CanReadInfo(fs, Dir(q))
         /\ Log(q, "clusterInfoFromFile", ok, fs[Dir(q)].state)
         /\ IF ok
            THEN Return(q, "ClusterInfo", NilErr)
            ELSE Return(q, "nil", Raw("clusterInfoFromFile"))
    /\ UNCHANGED <<ops, logOutput, osStderr, gardener, fs, call, stderr, defers, before>>

\* ----------------------------------------------------------------- Status
StatusBegin(q, sf, p, cfg) == Begin(q, "Status", sf, p, cfg, "S_load")

\* mutant of StatusLoad: the workspace is read even when an artifact is supplied
StatusLoad_PreferDisk(q) ==
    /\ pc[q] = "S_load"
    /\ IF ~CfgOK(call[q].cfg)
       THEN Panic(q) /\ UNCHANGED <<call, trace>>
       ELSE \E ok \in BOOLEAN :
              /\ ok => CanLoadState(fs, Dir(q))
              /\ Log(q, "stateFromFile", ok, fs[Dir(q)].state)
              /\ IF ok
                 THEN /\ call' = [call EXCEPT ![q].sf = fs[Dir(q)].state]
                      /\ Goto(q, "S_phase")
                      /\ UNCHANGED ret
                 ELSE /\ Return(q, "Unknown", Wrap("stateFromFile",
                                  "no state provided, attempted to load from file"))
                      /\ UNCHANGED call
    /\ UNCHANGED <<ops, logOutput, osStderr, gardener, fs, stderr, defers, before>>

\* mutant of StatusLoad: a failed load returns a nil status
StatusLoad_NilStatus(q) ==
    /\ pc[q] = "S_load"
    /\ IF call[q].sf = Nil
       THEN IF ~CfgOK(call[q].cfg)
            THEN Panic(q) /\ UNCHANGED <<call, trace>>
            ELSE \E ok \in BOOLEAN :
                   /\ ok => CanLoadState(fs, Dir(q))
                   /\ Log(q, "stateFromFile", ok, fs[Dir(q)].state)
                   /\ IF ok
                      THEN /\ call' = [call EXCEPT ![q].sf = fs[Dir(q)].state]
                           /\ Goto(q, "S_phase")
                           /\ UNCHANGED ret
                      ELSE /\ Return(q, "nil", Wrap("stateFromFile",
                                       "no state provided, attempted to load from file"))
                           /\ UNCHANGED call
       ELSE Goto(q, "S_phase") /\ UNCHANGED <<call, ret, trace>>
    /\ UNCHANGED <<ops, logOutput, osStderr, gardener, fs, stderr, defers, before>>

\* mutant of StatusLoad: the workspace is resolved with clusterDir, which creates it
StatusLoad_CreatesDir(q) ==
    /\ pc[q] = "S_load"
    /\ IF call[q].sf = Nil
       THEN IF ~CfgOK(call[q].cfg)
            THEN Panic(q) /\ UNCHANGED <<call, trace, fs>>
            ELSE \E ok \in BOOLEAN :
                   /\ ok => CanLoadState(fs, Dir(q))
                   /\ Log(q, "stateFromFile", ok, fs[Dir(q)].state)
                   /\ fs' = clusterDirFS(fs, Dir(q))
                   /\ IF ok
                      THEN /\ call' = [call EXCEPT ![q].sf = fs[Dir(q)].state]
                           /\ Goto(q, "S_phase")
                           /\ UNCHANGED ret
                      ELSE /\ Return(q, "Unknown", Wrap("stateFromFile",
                                       "no state provided, attempted to load from file"))
                           /\ UNCHANGED call
       ELSE Goto(q, "S_phase") /\ UNCHANGED <<call, ret, trace, fs>>
    /\ UNCHANGED <<ops, logOutput, osStderr, gardener, stderr, defers, before>>

\* cs := Unknown; if sf == nil { sf, err = stateFromFile(...); if err != nil { return cs, Wrap } }
StatusLoad(q) ==
    /\ pc[q] = "S_load"
    /\ IF call[q].sf = Nil
       THEN IF ~CfgOK(call[q].cfg)
            THEN Panic(q) /\ UNCHANGED <<call, trace>>
            ELSE \E ok \in BOOLEAN :
                   /\ ok => CanLoadState(fs, Dir(q))
                   /\ Log(q, "stateFromFile", ok, fs[Dir(q)].state)
                   /\ IF ok
                      THEN /\ call' = [call EXCEPT ![q].sf = fs[Dir(q)].state]
                           /\ Goto(q, "S_phase")
                           /\ UNCHANGED ret
                      ELSE /\ Return(q, "Unknown", Wrap("stateFromFile",
                                       "no state provided, attempted to load from file"))
                           /\ UNCHANGED call
       ELSE Goto(q, "S_phase") /\ UNCHANGED <<call, ret, trace>>
    /\ UNCHANGED <<ops, logOutput, osStderr, gardener, fs, stderr, defers, before>>

\* if sf.State.HasResources() { cs.Phase = types.Provisioned }; return cs, nil
StatusPhase(q) ==
    /\ pc[q] = "S_phase"
    /\ Return(q, IF HasResources(call[q].sf) THEN "Provisioned" ELSE "Unknown", NilErr)
    /\ UNCHANGED <<ops, logOutput, osStderr, gardener, fs, call, stderr, defers, trace,
                   before>>

\* ----------------------------------------------------------------- Delete
DeleteBegin(q, sf, p, cfg) == Begin(q, "Delete", sf, p, cfg, "D_silence")

\* stderr := os.Stderr; os.Stderr, err = os.Open(os.DevNull); if err != nil { return err }
\* defer func() { os.Stderr = stderr }()
DeleteSilence(q) ==
    /\ pc[q] = "D_silence"
    /\ stderr' = [stderr EXCEPT ![q] = osStderr]
    /\ \E ok \in BOOLEAN :
         /\ Log(q, "open", ok, Nil)
         /\ IF ok
            THEN /\ osStderr' = "devnull"
                 /\ Defer(q, "restore", <<>>)
                 /\ Goto(q, "D_defer")
                 /\ UNCHANGED ret
            ELSE /\ osStderr' = "nil"
                 /\ Return(q, "nil", Raw("open"))
                 /\ UNCHANGED defers
    /\ UNCHANGED <<ops, logOutput, gardener, fs, call, before>>

\* mutant of DeleteDefer: the cleanup is deferred whatever t.ops.Persistent is
DeleteDefer_Always(q) ==
    /\ pc[q] = "D_defer"
    /\ IF CfgOK(call[q].cfg)
       THEN Defer(q, "cleanup", Dir(q)) /\ Goto(q, "D_clusterDir") /\ UNCHANGED ret
       ELSE Panic(q) /\ UNCHANGED defers
    /\ UNCHANGED <<ops, logOutput, osStderr, gardener, fs, call, stderr, trace, before>>

\* if !t.ops.Persistent { defer cleanup(...) }: the arguments are evaluated here
DeleteDefer(q) ==
    /\ pc[q] = "D_defer"
    /\ IF ~ops.Persistent
       THEN IF CfgOK(call[q].cfg)
            THEN Defer(q, "cleanup", Dir(q)) /\ Goto(q, "D_clusterDir") /\ UNCHANGED ret
            ELSE Panic(q) /\ UNCHANGED defers
       ELSE Goto(q, "D_clusterDir") /\ UNCHANGED <<defers, ret>>
    /\ UNCHANGED <<ops, logOutput, osStderr, gardener, fs, call, stderr, trace, before>>

\* clusterDir, err := clusterDir(...); if err != nil { return err }
DeleteClusterDir(q) ==
    /\ pc[q] = "D_clusterDir"
    /\ IF ~CfgOK(call[q].cfg)
       THEN Panic(q) /\ UNCHANGED <<fs, trace>>
       ELSE \E ok \in BOOLEAN :
              /\ Log(q, "clusterDir", ok, fs[Dir(q)].state)
              /\ IF ok
                 THEN /\ fs' = clusterDirFS(fs, Dir(q))
                      /\ Goto(q, "D_gardener")
                      /\ UNCHANGED ret
                 ELSE /\ Return(q, "nil", Raw("clusterDir"))
                      /\ UNCHANGED fs
    /\ UNCHANGED <<ops, logOutput, osStderr, gardener, call, stderr, defers, before>>

\* mutant of DeleteGardener: the hook runs whatever the provider type is
DeleteGardener_AnyProvider(q) ==
    /\ pc[q] = "D_gardener"
    /\ \E ok \in BOOLEAN :
         /\ Log(q, "initGardenerProvider", ok, fs[Dir(q)].state)
         /\ IF ok
            THEN gardener' = TRUE /\ Goto(q, "D_tfInit") /\ UNCHANGED ret
            ELSE /\ Return(q, "nil", Wrap("initGardenerProvider",
                                "could not initialize the gardener provider"))
                 /\ UNCHANGED gardener
    /\ UNCHANGED <<ops, logOutput, osStderr, fs, call, stderr, defers, before>>

\* if p == types.Gardener { if err := initGardenerProvider(); err != nil { ... } }
DeleteGardener(q) ==
    /\ pc[q] = "D_gardener"
    /\ IF call[q].p = Gardener
       THEN \E ok \in BOOLEAN :
              /\ Log(q, "initGardenerProvider", ok, fs[Dir(q)].state)
              /\ IF ok
                 THEN gardener' = TRUE /\ Goto(q, "D_tfInit") /\ UNCHANGED ret
                 ELSE /\ Return(q, "nil", Wrap("initGardenerProvider",
                                     "could not initialize the gardener provider"))
                      /\ UNCHANGED gardener
       ELSE Goto(q, "D_tfInit") /\ UNCHANGED <<gardener, ret, trace>>
    /\ UNCHANGED <<ops, logOutput, osStderr, fs, call, stderr, defers, before>>

\* if err := tfInit(...); err != nil { return err }
DeleteTfInit(q) ==
    /\ pc[q] = "D_tfInit"
    /\ \E ok \in BOOLEAN :
         /\ ok => fs[Dir(q)].dir
         /\ Log(q, "tfInit", ok, fs[Dir(q)].state)
         /\ IF ok
            THEN fs' = tfInitFS(fs, Dir(q)) /\ Goto(q, "D_files") /\ UNCHANGED ret
            ELSE Return(q, "nil", Raw("tfInit")) /\ UNCHANGED fs
    /\ UNCHANGED <<ops, logOutput, osStderr, gardener, call, stderr, defers, before>>

\* if err := initClusterFiles(...); err != nil { return errors.Wrap(...) }
DeleteInitClusterFiles(q) ==
    /\ pc[q] = "D_files"
    /\ \E ok \in BOOLEAN :
         /\ ok => fs[Dir(q)].dir
         /\ Log(q, "initClusterFiles", ok, fs[Dir(q)].state)
         /\ IF ok
            THEN fs' = initClusterFilesFS(fs, Dir(q)) /\ Goto(q, "D_state") /\ UNCHANGED ret
            ELSE /\ Return(q, "nil", Wrap("initClusterFiles",
                                          "Could not initialize cluster data"))
                 /\ UNCHANGED fs
    /\ UNCHANGED <<ops, logOutput, osStderr, gardener, call, stderr, defers, before>>

\* mutant of DeleteState: the error of stateFromFile is dropped
DeleteState_IgnoreLoadError(q) ==
    /\ pc[q] = "D_state"
    /\ \E ok \in BOOLEAN :
         IF call[q].sf = Nil
         THEN /\ ok => CanLoadState(fs, Dir(q))
              /\ Log(q, "stateFromFile", ok, fs[Dir(q)].state)
              /\ Goto(q, "D_destroy")
              /\ UNCHANGED <<ret, fs>>
         ELSE /\ ok => fs[Dir(q)].dir
              /\ Log(q, "stateToFile", ok, fs[Dir(q)].state)
              /\ IF ok
                 THEN /\ fs' = stateToFileFS(fs, Dir(q), call[q].sf)
                      /\ Goto(q, "D_destroy")
                      /\ UNCHANGED ret
                 ELSE /\ Return(q, "nil", Wrap("stateToFile",
                                               "could not store state into file"))
                      /\ UNCHANGED fs
    /\ UNCHANGED <<ops, logOutput, osStderr, gardener, call, stderr, defers, before>>

\* mutant of DeleteState: a supplied artifact is stored only when the workspace
\* holds none
DeleteState_KeepOnDisk(q) ==
    /\ pc[q] = "D_state"
    /\ \E ok \in BOOLEAN :
         IF call[q].sf = Nil \/ fs[Dir(q)].state # Nil
         THEN /\ ok => CanLoadState(fs, Dir(q))
              /\ Log(q, "stateFromFile", ok, fs[Dir(q)].state)
              /\ IF ok
                 THEN Goto(q, "D_destroy") /\ UNCHANGED ret
                 ELSE Return(q, "nil", Wrap("stateFromFile",
                                "no state provided, attempted to load from file"))
              /\ UNCHANGED fs
         ELSE /\ ok => fs[Dir(q)].dir
              /\ Log(q, "stateToFile", ok, fs[Dir(q)].state)
              /\ IF ok
                 THEN /\ fs' = stateToFileFS(fs, Dir(q), call[q].sf)
                      /\ Goto(q, "D_destroy")
                      /\ UNCHANGED ret
                 ELSE /\ Return(q, "nil", Wrap("stateToFile",
                                               "could not store state into file"))
                      /\ UNCHANGED fs
    /\ UNCHANGED <<ops, logOutput, osStderr, gardener, call, stderr, defers, before>>

\* if sf == nil { _, err := stateFromFile(...) } else { err := stateToFile(sf, ...) }
DeleteState(q) ==
    /\ pc[q] = "D_state"
    /\ \E ok \in BOOLEAN :
         IF call[q].sf = Nil
         THEN /\ ok => CanLoadState(fs, Dir(q))
              /\ Log(q, "stateFromFile", ok, fs[Dir(q)].state)
              /\ IF ok
                 THEN Goto(q, "D_destroy") /\ UNCHANGED ret
                 ELSE Return(q, "nil", Wrap("stateFromFile",
                                "no state provided, attempted to load from file"))
              /\ UNCHANGED fs
         ELSE /\ ok => fs[Dir(q)].dir
              /\ Log(q, "stateToFile", ok, fs[Dir(q)].state)
              /\ IF ok
                 THEN /\ fs' = stateToFileFS(fs, Dir(q), call[q].sf)
                      /\ Goto(q, "D_destroy")
                      /\ UNCHANGED ret
                 ELSE /\ Return(q, "nil", Wrap("stateToFile",
                                               "could not store state into file"))
                      /\ UNCHANGED fs
    /\ UNCHANGED <<ops, logOutput, osStderr, gardener, call, stderr, defers, before>>

\* if err := tfDestroy(...); err != nil { return err }; return nil
\* A failed destroy may have removed some of the resources from the state.
DeleteTfDestroy(q) ==
    /\ pc[q] = "D_destroy"
    /\ \E ok \in BOOLEAN :
         /\ ok => fs[Dir(q)].dir
         /\ Log(q, "tfDestroy", ok, fs[Dir(q)].state)
         /\ IF ok
            THEN /\ fs' = tfDestroyFS(fs, Dir(q), 0)
                 /\ Return(q, "nil", NilErr)
            ELSE /\ \/ UNCHANGED fs
                    \/ /\ fs[Dir(q)].dir
                       /\ \E n \in 0..fs[Dir(q)].state : fs' = tfDestroyFS(fs, Dir(q), n)
                 /\ Return(q, "nil", Raw("tfDestroy"))
    /\ UNCHANGED <<ops, logOutput, osStderr, gardener, call, stderr, defers, before>>

\* ------------------------------------------------- deferred calls, return
Pop(q) == defers' = [defers EXCEPT ![q] = Tail(@)]

\* mutant of DeferredCleanup: a failed removal replaces the call's result
DeferredCleanup_ReturnsError(q) ==
    /\ pc[q] = "return"
    /\ defers[q] # <<>>
    /\ Head(defers[q]).fn = "cleanup"
    /\ \E ok \in BOOLEAN :
         /\ Log(q, "cleanup", ok, fs[Head(defers[q]).dir].state)
         /\ IF ok
            THEN fs' = cleanupFS(fs, Head(defers[q]).dir) /\ UNCHANGED ret
            ELSE /\ ret' = [ret EXCEPT ![q].val = "nil", ![q].err = Raw("cleanup")]
                 /\ UNCHANGED fs
    /\ Pop(q)
    /\ UNCHANGED <<ops, logOutput, osStderr, gardener, pc, call, stderr, before>>

\* defer cleanup(...): best effort, its failure is not returned
DeferredCleanup(q) ==
    /\ pc[q] = "return"
    /\ defers[q] # <<>>
    /\ Head(defers[q]).fn = "cleanup"
    /\ \E ok \in BOOLEAN :
         /\ Log(q, "cleanup", ok, fs[Head(defers[q]).dir].state)
         /\ IF ok THEN fs' = cleanupFS(fs, Head(defers[q]).dir) ELSE UNCHANGED fs
    /\ Pop(q)
    /\ UNCHANGED <<ops, logOutput, osStderr, gardener, pc, call, stderr, ret, before>>

\* mutant of DeferredRestore: the saved stream is not put back
DeferredRestore_Never(q) ==
    /\ pc[q] = "return"
    /\ defers[q] # <<>>
    /\ Head(defers[q]).fn = "restore"
    /\ Pop(q)
    /\ UNCHANGED <<ops, logOutput, osStderr, gardener, fs, pc, call, stderr, ret, trace,
                   before>>

\* defer func() { os.Stderr = stderr }()
DeferredRestore(q) ==
    /\ pc[q] = "return"
    /\ defers[q] # <<>>
    /\ Head(defers[q]).fn = "restore"
    /\ osStderr' = stderr[q]
    /\ Pop(q)
    /\ UNCHANGED <<ops, logOutput, gardener, fs, pc, call, stderr, ret, trace, before>>

\* the call returns to (or panics into) its caller
Exit(q) ==
    /\ pc[q] = "return"
    /\ defers[q] = <<>>
    /\ Goto(q, "done")
    /\ UNCHANGED <<ops, logOutput, osStderr, gardener, fs, call, stderr, defers, ret,
                   trace, before>>

\* the caller has the result; the goroutine is free for its next call
Idle(q) ==
    /\ pc[q] = "done"
    /\ Goto(q, "idle")
    /\ call' = [call EXCEPT ![q] = NoCall]
    /\ ret' = [ret EXCEPT ![q] = NoRet]
    /\ trace' = [trace EXCEPT ![q] = <<>>]
    /\ before' = [before EXCEPT ![q] = NoBefore]
    /\ stderr' = [stderr EXCEPT ![q] = "nil"]
    /\ UNCHANGED <<ops, logOutput, osStderr, gardener, fs, defers>>

\* ---------------------------------------------------------- specification
\* no call is in flight: the caller runs its operations one after another
Serialized == \A r \in Procs : pc[r] = "idle"

Step(q) ==
    \/ CreateSilence(q) \/ CreateDefer(q) \/ CreateClusterDir(q) \/ CreateGardener(q)
    \/ CreateTfInit(q) \/ CreateInitClusterFiles(q) \/ CreateTfApply(q)
    \/ CreateClusterInfo(q)
    \/ StatusLoad(q) \/ StatusPhase(q)
    \/ DeleteSilence(q) \/ DeleteDefer(q) \/ DeleteClusterDir(q) \/ DeleteGardener(q)
    \/ DeleteTfInit(q) \/ DeleteInitClusterFiles(q) \/ DeleteState(q)
    \/ DeleteTfDestroy(q)
    \/ DeferredCleanup(q) \/ DeferredRestore(q) \/ Exit(q) \/ Idle(q)

Next ==
    \E q \in Procs :
       \/ /\ Serialized
          /\ \E p \in Providers, cfg \in Cfgs :
               \/ CreateBegin(q, p, cfg)
               \/ \E sf \in {Nil} \cup Artifacts :
                     StatusBegin(q, sf, p, cfg) \/ DeleteBegin(q, sf, p, cfg)
       \/ Step(q)

Spec == Init /\ [][Next]_vars

\* ------------------------------------------ ephemeral operator, empty disk
\* New(Persistent(false)) on a data directory that holds no workspace; the
\* caller runs its Create, Status and Delete calls one after another.
NoWorkspace == [d \in Dirs |-> Absent]

InitEph == Init /\ ~ops.Persistent /\ fs = NoWorkspace

SpecEph == InitEph /\ [][Next]_vars

\* --------------------------------------------- overlapping Create / Delete
\* Two goroutines each make one Create or Delete call, with a valid cfg, on a
\* data directory that starts empty, and the calls may overlap: a call begins
\* whatever the other goroutine is doing. The collaborators do not fail here
\* (NoFailure): the races are between steps that succeed.
ValidCfgs == {cfg \in Cfgs : CfgOK(cfg)}

InitConc == Init /\ fs = [d \in Dirs |-> Absent]

NoFailure == \A q \in Procs : \A i \in DOMAIN trace[q] : trace[q][i].ok

StepConc(q) ==
    \/ CreateSilence(q) /\ NoFailure'
    \/ CreateDefer(q)
    \/ CreateClusterDir(q) /\ NoFailure'
    \/ CreateGardener(q) /\ NoFailure'
    \/ CreateTfInit(q) /\ NoFailure'
    \/ CreateInitClusterFiles(q) /\ NoFailure'
    \/ CreateTfApply(q) /\ NoFailure'
    \/ CreateClusterInfo(q) /\ NoFailure'
    \/ DeleteSilence(q) /\ NoFailure'
    \/ DeleteDefer(q)
    \/ DeleteClusterDir(q) /\ NoFailure'
    \/ DeleteGardener(q) /\ NoFailure'
    \/ DeleteTfInit(q) /\ NoFailure'
    \/ DeleteInitClusterFiles(q) /\ NoFailure'
    \/ DeleteState(q) /\ NoFailure'
    \/ DeleteTfDestroy(q) /\ NoFailure'
    \/ DeferredCleanup(q) /\ NoFailure'
    \/ DeferredRestore(q)
    \/ Exit(q)

NextConc ==
    \E q \in Procs :
       \/ \E p \in Providers, cfg \in ValidCfgs :
             \/ CreateBegin(q, p, cfg)
             \/ \E sf \in {Nil, MaxResources} : DeleteBegin(q, sf, p, cfg)
       \/ StepConc(q)

SpecConc == InitConc /\ [][NextConc]_vars

\* ================================================================= claims
\* q's call has returned to its caller (it did not panic)
Returned(q) == pc[q] = "done" /\ ~ret[q].panic
InCall(q, op) == pc[q] # "idle" /\ call[q].op = op
Mutating(q) == pc[q] # "idle" /\ call[q].op \in {"Create", "Delete"}
Entries(q, s) == {i \in DOMAIN trace[q] : trace[q][i].step = s}
Invoked(q, s) == Entries(q, s) # {}
Succeeded(q, s) == \E i \in Entries(q, s) : trace[q][i].ok
Failed(q, s) == \E i \in Entries(q, s) : ~trace[q][i].ok
Leaving(q) == pc[q] \in {"return", "done"}
EngineVerbs == {"tfInit", "tfApply", "tfDestroy"}
ErrNoState == Wrap("stateFromFile", "no state provided, attempted to load from file")
ErrStore == Wrap("stateToFile", "could not store state into file")

\* C1: with persistent=false, after any Create or Delete call returns, on
\* every exit path, the workspace directory of the call's identity does not
\* exist, provided the removal itself did not fail.
C1_EphemeralWorkspaceRemoved ==
    \A q \in Procs :
        (/\ Returned(q) /\ Mutating(q)
         /\ ~ops.Persistent
         /\ CfgOK(call[q].cfg)
         /\ ~Failed(q, "cleanup"))
        => ~fs[Dir(q)].dir

\* C2 as stated: with persistent=true, after any Create or Delete call returns
\* (success or error), the workspace directory exists and holds a state
\* artifact. (Stated for the calls that got past the os.Stderr set-up, so that
\* its failure is no part of what refutes it.)
C2_PersistentWorkspaceAfterAnyCall ==
    \A q \in Procs :
        (/\ Returned(q) /\ Mutating(q) /\ ops.Persistent /\ CfgOK(call[q].cfg)
         /\ ~Failed(q, "open"))
        => fs[Dir(q)].dir /\ fs[Dir(q)].state # Nil

\* C2 amended: with persistent=true, no Create or Delete ever removes a
\* workspace directory or a state artifact (what was on disk when the call
\* began is on disk at every point of the call and after it); once the call's
\* workspace resolution has succeeded the directory exists; and after a
\* successful Create or Delete the workspace holds a state artifact.
C2_PersistentWorkspaceKept ==
    \A q \in Procs :
        (Mutating(q) /\ ops.Persistent)
        => /\ \A d \in Dirs :
                /\ before[q].fs[d].dir => fs[d].dir
                /\ before[q].fs[d].state # Nil => fs[d].state # Nil
           /\ ~Invoked(q, "cleanup")
           /\ Succeeded(q, "clusterDir") => fs[Dir(q)].dir
           /\ (Returned(q) /\ ret[q].err = NilErr)
                => fs[Dir(q)].dir /\ fs[Dir(q)].state # Nil

\* C2 witness: a persistent Create on an identity with no workspace returned
\* successfully and left the directory with a state artifact.
C2_Witness ==
    \E q \in Procs :
        /\ Returned(q) /\ InCall(q, "Create") /\ ops.Persistent
        /\ ret[q].err = NilErr
        /\ ~before[q].fs[Dir(q)].dir
        /\ fs[Dir(q)].dir /\ fs[Dir(q)].state # Nil

\* C3: a Delete with no artifact supplied, on a workspace that holds no state
\* artifact, never invokes the engine's destroy, never returns success, and the
\* state load it reaches fails with the no-state error.
C3_DeleteWithoutState ==
    \A q \in Procs :
        (/\ InCall(q, "Delete") /\ call[q].arg = Nil
         /\ CfgOK(call[q].cfg)
         /\ before[q].fs[Dir(q)].state = Nil)
        => /\ ~Invoked(q, "tfDestroy")
           /\ ~Succeeded(q, "stateFromFile")
           /\ Returned(q) => ret[q].err # NilErr
           /\ (Invoked(q, "stateFromFile") /\ Leaving(q)) => ret[q].err = ErrNoState

\* C3 witness: such a Delete reached the state load and returned the no-state error.
C3_Witness ==
    \E q \in Procs :
        /\ Returned(q) /\ InCall(q, "Delete") /\ call[q].arg = Nil
        /\ Failed(q, "stateFromFile")
        /\ before[q].fs[Dir(q)].state = Nil
        /\ ret[q].err = ErrNoState

\* C4: a Delete with a supplied artifact invokes destroy only after a successful
\* stateToFile, with the workspace artifact equal to the supplied one at that
\* moment; when the write fails it returns the store error and never invokes destroy.
C4_StateStoredBeforeDestroy ==
    \A q \in Procs :
        (InCall(q, "Delete") /\ call[q].arg # Nil)
        => /\ \A i \in Entries(q, "tfDestroy") :
                /\ trace[q][i].state = call[q].arg
                /\ \E j \in Entries(q, "stateToFile") : j < i /\ trace[q][j].ok
           /\ Failed(q, "stateToFile")
                => /\ ~Invoked(q, "tfDestroy")
                   /\ Leaving(q) /\ ret[q].err = ErrStore

\* C4 witness: destroy was invoked after the supplied artifact replaced a
\* different artifact that was on disk.
C4_Witness ==
    \E q \in Procs :
        /\ InCall(q, "Delete") /\ call[q].arg # Nil
        /\ CfgOK(call[q].cfg)
        /\ before[q].fs[Dir(q)].state \notin {Nil, call[q].arg}
        /\ Invoked(q, "tfDestroy")

\* the artifact a Status call decides on: the supplied one, else the one loaded
\* from the workspace (Nil when the load failed)
Authoritative(q) ==
    IF call[q].arg # Nil THEN call[q].arg
    ELSE IF Succeeded(q, "stateFromFile") THEN fs[Dir(q)].state
    ELSE Nil

\* C5: Status returns Provisioned iff the authoritative artifact reports at
\* least one resource, otherwise Unknown; with an artifact supplied the
\* workspace is not read.
C5_StatusPhase ==
    \A q \in Procs :
        (Returned(q) /\ InCall(q, "Status"))
        => /\ ret[q].val = (IF Authoritative(q) >= 1 THEN "Provisioned" ELSE "Unknown")
           /\ call[q].arg # Nil => trace[q] = <<>>

\* C5 witness: Status returned Provisioned for a supplied artifact with
\* resources while the workspace holds an artifact with none.
C5_Witness ==
    \E q \in Procs :
        /\ Returned(q) /\ InCall(q, "Status")
        /\ call[q].arg >= 1
        /\ CfgOK(call[q].cfg) /\ fs[Dir(q)].state = 0
        /\ ret[q].val = "Provisioned"

\* C6: a Status with no artifact supplied whose load fails returns phase
\* Unknown with a non-nil error; Status never returns a nil status and never
\* returns Provisioned together with an error.
C6_StatusLoadFailure ==
    \A q \in Procs :
        (Returned(q) /\ InCall(q, "Status"))
        => /\ ret[q].val \in {"Unknown", "Provisioned"}
           /\ ret[q].val = "Provisioned" => ret[q].err = NilErr
           /\ (call[q].arg = Nil /\ Failed(q, "stateFromFile"))
                => ret[q].val = "Unknown" /\ ret[q].err = ErrNoState

\* C6 witness: Status(nil) on a workspace without a state artifact has returned.
C6_Witness ==
    \E q \in Procs :
        /\ Returned(q) /\ InCall(q, "Status") /\ call[q].arg = Nil
        /\ Failed(q, "stateFromFile")
        /\ ret[q].val = "Unknown" /\ ret[q].err # NilErr

\* C7: during and after a Status call the file system, os.Stderr and the
\* provider bootstrap are as they were when it began, it registers no deferred
\* call, and the only sub-step it invokes is the state load.
C7_StatusReadOnly ==
    \A q \in Procs :
        InCall(q, "Status")
        => /\ fs = before[q].fs
           /\ osStderr = before[q].osStderr
           /\ defers[q] = <<>>
           /\ \A i \in DOMAIN trace[q] : trace[q][i].step = "stateFromFile"

\* C7 witness: a Status(nil) of a non-persistent operator has returned and the
\* workspace with its state artifact is still there.
C7_Witness ==
    \E q \in Procs :
        /\ Returned(q) /\ InCall(q, "Status") /\ call[q].arg = Nil
        /\ ~ops.Persistent
        /\ Succeeded(q, "stateFromFile")
        /\ fs[Dir(q)].dir /\ fs[Dir(q)].state # Nil

\* C8: once apply has failed, Create is returning a non-nil error and no
\* ClusterInfo, has not read ClusterInfo, has invoked apply once and never
\* invokes destroy.
C8_ApplyFailure ==
    \A q \in Procs :
        (InCall(q, "Create") /\ Failed(q, "tfApply"))
        => /\ Leaving(q)
           /\ ~ret[q].panic
           /\ ret[q].err = Raw("tfApply")
           /\ ret[q].val = "nil"
           /\ ~Invoked(q, "clusterInfoFromFile")
           /\ Cardinality(Entries(q, "tfApply")) = 1
           /\ ~Invoked(q, "tfDestroy")

\* C8 witness: a Create whose apply failed has returned.
C8_Witness ==
    \E q \in Procs :
        /\ Returned(q) /\ InCall(q, "Create")
        /\ Failed(q, "tfApply")
        /\ ret[q].err # NilErr

\* C9: after any Create or Delete call returns, os.Stderr is the stream it
\* was when the call began (operations serialized).
C9_StderrRestored ==
    \A q \in Procs :
        (Returned(q) /\ Mutating(q)) => osStderr = before[q].osStderr

\* C10: in Create and in Delete alike, with verbose=true os.Stderr is never
\* replaced during the call and the engine verbs run with the original
\* stream; with verbose=false the engine verbs run with the stream replaced.
C10_SuppressionFollowsVerbose ==
    \A q \in Procs :
        Mutating(q)
        => /\ ops.Verbose
                => /\ osStderr = before[q].osStderr
                   /\ \A i \in DOMAIN trace[q] : trace[q][i].out = before[q].osStderr
           /\ ~ops.Verbose
                => \A i \in DOMAIN trace[q] :
                      trace[q][i].step \in EngineVerbs => trace[q][i].out = "devnull"

\* C11: a Create, Status or Delete whose cfg lacks project or cluster_name (or
\* holds a non-string there) comes back to its caller with a configuration
\* error, not a panic, has invoked no engine verb, and leaves os.Stderr as it
\* was when the call began. (Stated for the calls that got past the os.Stderr
\* set-up and that need the identity, i.e. not for a Status given an artifact,
\* so that what refutes it is the handling of cfg alone.)
C11_ConfigurationError ==
    \A q \in Procs :
        (/\ pc[q] = "done" /\ call[q].op # "none" /\ ~CfgOK(call[q].cfg)
         /\ ~Failed(q, "open")
         /\ ~(call[q].op = "Status" /\ call[q].arg # Nil))
        => /\ ~ret[q].panic
           /\ ret[q].err # NilErr
           /\ \A i \in DOMAIN trace[q] : trace[q][i].step \notin EngineVerbs
           /\ osStderr = before[q].osStderr

\* the sub-steps of Create and Delete whose errors the claims speak of
SubSteps == {"clusterDir", "initGardenerProvider", "tfInit", "initClusterFiles",
             "stateFromFile", "stateToFile", "tfApply", "tfDestroy"}
\* the sub-steps whose error the operator wraps, and the static text it wraps it in
WrappedSteps == {"initGardenerProvider", "initClusterFiles", "stateFromFile", "stateToFile"}
StaticText(s) ==
    CASE s = "initGardenerProvider" -> "could not initialize the gardener provider"
      [] s = "initClusterFiles" -> "Could not initialize cluster data"
      [] s = "stateFromFile" -> "no state provided, attempted to load from file"
      [] s = "stateToFile" -> "could not store state into file"
      [] OTHER -> ""

\* C12 as stated: every error Create or Delete returns because a sub-step
\* failed carries a static description of the step; none is returned unwrapped.
C12_EveryErrorWrapped ==
    \A q \in Procs :
        (Mutating(q) /\ Leaving(q) /\ ~ret[q].panic /\ ret[q].err.cause \in SubSteps)
        => ret[q].err.msg # ""

\* C12 amended: the error Create or Delete returns is the error of the one
\* sub-step that failed; it is wrapped with that step's static description
\* when the step is the provider bootstrap, the config materialization, the
\* state load or the state store, and returned as it is (unwrapped) when the
\* step is the workspace resolution, engine init, apply, destroy, the
\* ClusterInfo read or the opening of the null device.
C12_ErrorWrapping ==
    \A q \in Procs :
        (Mutating(q) /\ Leaving(q) /\ ~ret[q].panic)
        => /\ ret[q].err # NilErr
                => /\ Failed(q, ret[q].err.cause)
                   /\ ret[q].err.cause \in SubSteps \cup {"open", "clusterInfoFromFile"}
                   /\ ret[q].err.msg = StaticText(ret[q].err.cause)
           /\ ret[q].err = NilErr
                => \A i \in DOMAIN trace[q] :
                      trace[q][i].ok \/ trace[q][i].step = "cleanup"

\* C12 witness: a call has returned the wrapped error of a failed config
\* materialization.
C12_Witness ==
    \E q \in Procs :
        /\ Returned(q) /\ Mutating(q)
        /\ Failed(q, "initClusterFiles")
        /\ ret[q].err = Wrap("initClusterFiles", "Could not initialize cluster data")

\* the sub-steps a call has attempted, in order, without the opening of the
\* null device and the deferred cleanup
IsSubStep(e) == e.step \notin {"open", "cleanup"}
Attempted(q) == SelectSeq(trace[q], IsSubStep)

\* the order of the sub-steps in the body of Create and of Delete
Bootstrap(q) == IF call[q].p = Gardener THEN <<"initGardenerProvider">> ELSE <<>>
Order(q) ==
    IF call[q].op = "Create"
    THEN <<"clusterDir">> \o Bootstrap(q)
         \o <<"tfInit", "initClusterFiles", "tfApply", "clusterInfoFromFile">>
    ELSE <<"clusterDir">> \o Bootstrap(q)
         \o <<"tfInit", "initClusterFiles",
              IF call[q].arg = Nil THEN "stateFromFile" ELSE "stateToFile",
              "tfDestroy">>

\* C13: the sub-steps a Create or Delete call has attempted are an initial
\* part of the fixed order (bootstrap only for Gardener), so each is attempted
\* at most once; only the last attempted one can have failed; a call that
\* returns without error has attempted them all; the null device is opened
\* first and the cleanup runs last.
C13_StepOrder ==
    \A q \in Procs :
        Mutating(q)
        => LET a == Attempted(q) IN
           /\ Len(a) <= Len(Order(q))
           /\ \A i \in 1..Len(a) : a[i].step = Order(q)[i]
           /\ \A i \in 1..(Len(a) - 1) : a[i].ok
           /\ (Len(a) > 0 /\ ~a[Len(a)].ok) => Leaving(q)
           /\ (Returned(q) /\ ret[q].err = NilErr) => Len(a) = Len(Order(q))
           /\ \A i \in DOMAIN trace[q] :
                /\ trace[q][i].step = "open" => i = 1
                /\ trace[q][i].step = "cleanup" => i = Len(trace[q])

\* C13 witness: a non-persistent Delete for Gardener went through every step
\* up to a failing destroy and has returned after its cleanup.
C13_Witness ==
    \E q \in Procs :
        /\ Returned(q) /\ InCall(q, "Delete") /\ call[q].p = Gardener
        /\ Len(Attempted(q)) = 6
        /\ Failed(q, "tfDestroy")
        /\ Invoked(q, "cleanup")

\* C14: in Create and Delete the provider bootstrap hook is invoked only for
\* Gardener; for Gardener every engine verb is preceded by a successful run of
\* the hook; and when the hook fails the call is returning the wrapped error
\* and has invoked no engine verb.
C14_ProviderBootstrap ==
    \A q \in Procs :
        Mutating(q)
        => /\ Invoked(q, "initGardenerProvider") => call[q].p = Gardener
           /\ call[q].p = Gardener
                => \A i \in DOMAIN trace[q] :
                      trace[q][i].step \in EngineVerbs
                      => \E j \in Entries(q, "initGardenerProvider") :
                            j < i /\ trace[q][j].ok
           /\ Succeeded(q, "initGardenerProvider") => gardener
           /\ Failed(q, "initGardenerProvider")
                => /\ Leaving(q)
                   /\ ret[q].err = Wrap("initGardenerProvider",
                                        "could not initialize the gardener provider")
                   /\ \A i \in DOMAIN trace[q] : trace[q][i].step \notin EngineVerbs

\* C14 witness: a Create for Gardener whose bootstrap hook failed has returned.
C14_Witness ==
    \E q \in Procs :
        /\ Returned(q) /\ InCall(q, "Create") /\ call[q].p = Gardener
        /\ Failed(q, "initGardenerProvider")
        /\ ret[q].err.msg = "could not initialize the gardener provider"

\* C15: in a Create with persistent=false the removal of the workspace is the
\* last thing the call does: it comes after the ClusterInfo read, which found
\* the workspace's state artifact in place, and the result is the one the
\* body determined (ClusterInfo and no error exactly when the read succeeded,
\* otherwise the failed step's error), whether the removal succeeds or fails.
C15_CleanupAfterResult ==
    \A q \in Procs :
        (InCall(q, "Create") /\ ~ops.Persistent /\ Invoked(q, "cleanup"))
        => /\ Leaving(q)
           /\ Entries(q, "cleanup") = {Len(trace[q])}
           /\ \A i \in Entries(q, "clusterInfoFromFile") :
                trace[q][i].ok => trace[q][i].state # Nil
           /\ ~ret[q].panic
                => /\ Succeeded(q, "clusterInfoFromFile")
                        <=> (ret[q].val = "ClusterInfo" /\ ret[q].err = NilErr)
                   /\ ~Succeeded(q, "clusterInfoFromFile")
                        => /\ ret[q].val = "nil"
                           /\ ret[q].err.cause # "cleanup"
                           /\ Failed(q, ret[q].err.cause)
           /\ Succeeded(q, "cleanup") => ~fs[Dir(q)].dir

\* C15 witness: a successful non-persistent Create has returned its
\* ClusterInfo and the workspace is removed.
C15_Witness ==
    \E q \in Procs :
        /\ Returned(q) /\ InCall(q, "Create") /\ ~ops.Persistent
        /\ Succeeded(q, "clusterInfoFromFile")
        /\ ret[q].val = "ClusterInfo" /\ ret[q].err = NilErr
        /\ Succeeded(q, "cleanup")
        /\ ~fs[Dir(q)].dir

\* both goroutines' calls have returned
AllReturned == \A q \in Procs : Returned(q) /\ Mutating(q)
\* q's call replaced os.Stderr by the null device
Suppressed(q) == Succeeded(q, "open")

\* C16: when the calls may overlap, os.Stderr can be left replaced after both
\* have returned, and only in this way: two calls both replaced the stream and
\* one of them saved the other's null device as "the original" (its save ran
\* between the other's replace and restore); calls whose saves both saw the
\* original stream leave it restored.
C16_StderrLostOnlyByOverlap ==
    AllReturned
    => /\ osStderr \in {"stderr", "devnull"}
       /\ osStderr = "devnull"
            => /\ \A q \in Procs : Suppressed(q)
               /\ \E q \in Procs : stderr[q] = "devnull"
       /\ (\A q \in Procs : Suppressed(q) => stderr[q] = "stderr")
            => osStderr = "stderr"

\* C16 witness: two suppressing calls for different identities have both
\* returned and os.Stderr is the null device, not the original stream.
C16_Witness ==
    /\ AllReturned
    /\ \A q \in Procs : Suppressed(q)
    /\ Dir("g1") # Dir("g2")
    /\ osStderr # "stderr"

\* C17: nothing but another call's cleanup takes a workspace away from a call
\* that has resolved it and is still in its body: when that happens the
\* operator is non-persistent and another call on the same identity has run
\* its cleanup; no lock keeps the two apart.
C17_WorkspaceLostOnlyToOtherCleanup ==
    \A q \in Procs :
        (Mutating(q) /\ Succeeded(q, "clusterDir") /\ ~Leaving(q) /\ ~fs[Dir(q)].dir)
        => /\ ~ops.Persistent
           /\ \E r \in Procs \ {q} :
                /\ Mutating(r) /\ Dir(r) = Dir(q)
                /\ Succeeded(r, "cleanup")

\* C17 witness: a call has initialized its workspace (tfInit succeeded) and
\* has not yet invoked apply / destroy or read its result, and the workspace
\* is gone: the other call, on the same identity, has removed it.
C17_Witness ==
    \E q \in Procs : \E r \in Procs \ {q} :
        /\ Mutating(q) /\ Mutating(r) /\ Dir(r) = Dir(q)
        /\ Succeeded(q, "tfInit")
        /\ pc[q] \in {"C_files", "C_apply", "D_files", "D_state", "D_destroy"}
        /\ Succeeded(r, "cleanup")
        /\ fs[Dir(q)] = Absent

\* A Delete(nil) that loaded the state artifact from the workspace and whose
\* destroy then failed has returned.
DestroyFailed(q) ==
    /\ Returned(q)
    /\ call[q].op = "Delete"
    /\ call[q].arg = Nil
    /\ Succeeded(q, "stateFromFile")
    /\ Failed(q, "tfDestroy")

\* C18 as stated: when Delete is called with no supplied state, loads the
\* artifact from the workspace, and destroy then fails, a state artifact is
\* still on disk after Delete returns, with persistent=true and with
\* persistent=false alike.
C18_StateSurvivesFailedDestroy ==
    \A q \in Procs :
        DestroyFailed(q) => fs[Dir(q)].state # Nil

\* C18 amended: after such a Delete, with persistent=true the workspace still
\* holds a state artifact, describing no more resources than the one on disk
\* before the call; with persistent=false the deferred cleanup has removed
\* the workspace with its artifact, unless the removal itself failed.
C18_StateAfterFailedDestroy ==
    \A q \in Procs :
        DestroyFailed(q)
        => /\ before[q].fs[Dir(q)].state # Nil
           /\ ops.Persistent
                => /\ fs[Dir(q)].dir
                   /\ fs[Dir(q)].state # Nil
                   /\ fs[Dir(q)].state <= before[q].fs[Dir(q)].state
                   /\ ~Invoked(q, "cleanup")
           /\ ~ops.Persistent
                => /\ Invoked(q, "cleanup")
                   /\ Succeeded(q, "cleanup") => fs[Dir(q)] = Absent
                   /\ Failed(q, "cleanup") => fs[Dir(q)].state # Nil

C18_Witness ==
    \E q \in Procs :
        /\ DestroyFailed(q)
        /\ ops.Persistent
        /\ fs[Dir(q)].state = before[q].fs[Dir(q)].state
        /\ fs[Dir(q)].state > 0

\* q's call is a Delete or a Status to which the caller supplied no artifact
NoArtifactSupplied(q) ==
    /\ pc[q] # "idle"
    /\ call[q].op \in {"Delete", "Status"}
    /\ call[q].arg = Nil

\* such a call loads no state, invokes no destroy, and fails; when it got as
\* far as the state load it fails with the no-state error (Status: with phase
\* Unknown)
FailsWithNoState(q) ==
    /\ ~Invoked(q, "tfDestroy")
    /\ ~Succeeded(q, "stateFromFile")
    /\ Returned(q)
         => /\ ret[q].err # NilErr
            /\ Invoked(q, "stateFromFile") => ret[q].err = ErrNoState
            /\ call[q].op = "Status" => ret[q].val = "Unknown" /\ ret[q].err = ErrNoState

\* C19 as stated: for an operator with persistent=false whose workspaces start
\* absent, after any sequence of serialized calls every Delete(nil) and
\* Status(nil) fails with the no-state error and a Delete(nil) never invokes
\* destroy.
C19_NoStateWithoutSuppliedArtifact ==
    \A q \in Procs : NoArtifactSupplied(q) => FailsWithNoState(q)

\* C19 amended: a call that begins with no workspace on disk ends with no
\* workspace on disk unless its cleanup removal failed, and a Delete(nil) or
\* Status(nil) that begins with no workspace on disk fails with the no-state
\* error and never invokes destroy. (By induction over the serialized calls:
\* as long as no removal has failed, every Delete(nil) and Status(nil) fails.)
C19_NoStateUnlessCleanupFailed ==
    \A q \in Procs :
        (pc[q] # "idle" /\ before[q].fs = NoWorkspace)
        => /\ (pc[q] = "done" /\ ~Failed(q, "cleanup")) => fs = NoWorkspace
           /\ NoArtifactSupplied(q) => FailsWithNoState(q)

\* C19 witness: after an earlier call that went through the Gardener bootstrap,
\* a Delete(nil) for another provider found no workspace and has returned the
\* no-state error, leaving none behind.
C19_Witness ==
    \E q \in Procs :
        /\ Returned(q)
        /\ call[q].op = "Delete" /\ call[q].arg = Nil
        /\ call[q].p # Gardener /\ gardener
        /\ before[q].fs = NoWorkspace
        /\ ret[q].err = ErrNoState
        /\ fs = NoWorkspace

====
